---- MODULE Spec2Model ----
(***************************************************************************)
(* Model of agent/mongo/mongo.go: ensureMongoServer and its helpers        *)
(* (removeOldMongoServices, makeJournalDirs, mongoUpstartService,          *)
(* initiateReplicaSet, RemoveService) running against the upstart          *)
(* supervisor of each node, the journal directory of each node and the     *)
(* replica-set configuration of the database cluster; and of the test      *)
(* helper runWithTimeout, the goroutine it starts and the runner it drives. *)
(*                                                                         *)
(* A Go string is a sequence of tokens, so that fmt.Sprintf, fmt.Errorf    *)
(* and "+" are concatenations.  An error is the string of its message;     *)
(* nil is the empty sequence.                                              *)
(***************************************************************************)
EXTENDS Integers, Sequences, FiniteSets, TLC

\* ---------------------------------------------------------------- bounds
MaxVersion == 3
MaxInvocations == 2
MaxRemoveService == 1
MaxRaceInvocations == 2
MaxRuns == 2

\* ------------------------------------------------------ program constants
maxFiles == 65000
maxProcs == 20000
replicaSetName == <<"juju">>
\* a build that looks for the legacy definition under a versioned name
oldMongoServiceName_versioned == <<"juju-db-v", "1">>
oldMongoServiceName == <<"juju-db">>
mongoScriptVersion == 2
\* a build whose loop over the versioned names starts one version early
firstVersionedName_early == mongoScriptVersion - 1
firstVersionedName == 2
numPreallocFiles == 3
preallocSize == 1024 * 1024
\* a build whose buffer of zeroes has half the size
zeroesLen_half == 32 * 1024
zeroesLen == 64 * 1024

\* ------------------------------------------------------------ environment
Calls == {1, 2}
Nodes == {1, 2}
NodeAddress(n) == IF n = 1 THEN <<"10.0.0.1">> ELSE <<"10.0.0.2">>
NodePort(n) == IF n = 1 THEN 37017 ELSE 37018
NodeDataDir(n) == <<"/var/lib/juju">>
Versions == 1 .. MaxVersion
\* chunk numbers at which a write to a prealloc file may fail
WriteFaultPoints == {1, preallocSize \div zeroesLen}

nil == <<>>
NoConfig == <<>>

VARIABLES
    curVersion,   \* the script version this build of the agent carries
    nodeOf,       \* the node each caller runs on
    callers,      \* the callers that invoke EnsureMongoServer
    budget,       \* how many invocations of EnsureMongoServer may still begin
    svc,          \* upstart: node -> service name -> "absent"|"stopped"|"running"
    journalDir,   \* node -> whether <dataDir>/db/journal exists
    files,        \* node -> the files of its journal directory: ordinal -> size in bytes
    rsConfig,     \* replica-set configuration held by the cluster, or NoConfig
    call,         \* caller -> frame of its ensureMongoServer invocation
    ops,          \* caller -> the operations its current invocation has issued
    returned,     \* caller -> errors returned by its invocations so far
    removed,      \* number of RemoveService calls made so far
    asked,        \* what the environment has been asked so far: the number of
                  \* Install and Start requests, of config queries answered
                  \* not-found and of initiates
    dbStarted,    \* node -> whether a database service has ever been started on
                  \* the data directory of the node
    run           \* the test helper runWithTimeout and the goroutine it spawns

vars == <<curVersion, nodeOf, callers, budget, svc, journalDir, files, rsConfig,
          call, ops, returned, removed, asked, dbStarted, run>>

\* --------------------------------------------------------- pure functions
makeServiceName(version) == <<"juju-db-v", ToString(version)>>

Sprint(v) == <<ToString(v)>>

Errorf(msg, err) == msg \o err

Bool(b) == IF b THEN <<"true">> ELSE <<"false">>

PreallocName(x) == <<"prealloc.", ToString(x)>>

\* a build that puts the key file on the command line unquoted
ShQuote_none(s) == s

ShQuote(s) == <<"'">> \o s \o <<"'">>

PathJoin(dir, name) == dir \o <<"/", name>>

\* a build whose command line leaves the database on its default port
mongoUpstartService_noPort(name, dataDir, dbDir, port) ==
    [ Name  |-> name,
      Desc  |-> <<"juju state database">>,
      Limit |-> [ nofile |-> Sprint(maxFiles) \o <<" ">> \o Sprint(maxFiles),
                  nproc  |-> Sprint(maxProcs) \o <<" ">> \o Sprint(maxProcs) ],
      Cmd   |-> <<"/usr/bin/mongod">>
                \o <<" --auth">>
                \o <<" --dbpath=">> \o dbDir
                \o <<" --sslOnNormalPorts">>
                \o <<" --sslPEMKeyFile ">> \o ShQuote(PathJoin(dataDir, "server.pem"))
                \o <<" --sslPEMKeyPassword ignored">>
                \o <<" --bind_ip 0.0.0.0">>
                \o <<" --noprealloc">>
                \o <<" --syslog">>
                \o <<" --smallfiles">>
                \o <<" --replSet ">> \o replicaSetName ]

mongoUpstartService(name, dataDir, dbDir, port) ==
    [ Name  |-> name,
      Desc  |-> <<"juju state database">>,
      Limit |-> [ nofile |-> Sprint(maxFiles) \o <<" ">> \o Sprint(maxFiles),
                  nproc  |-> Sprint(maxProcs) \o <<" ">> \o Sprint(maxProcs) ],
      Cmd   |-> <<"/usr/bin/mongod">>
                \o <<" --auth">>
                \o <<" --dbpath=">> \o dbDir
                \o <<" --sslOnNormalPorts">>
                \o <<" --sslPEMKeyFile ">> \o ShQuote(PathJoin(dataDir, "server.pem"))
                \o <<" --sslPEMKeyPassword ignored">>
                \o <<" --bind_ip 0.0.0.0">>
                \o <<" --port ">> \o Sprint(port)
                \o <<" --noprealloc">>
                \o <<" --syslog">>
                \o <<" --smallfiles">>
                \o <<" --replSet ">> \o replicaSetName ]

\* a build that leaves the port out of the seed address
SeedAddress_noPort(address, port) == address

SeedAddress(address, port) == address \o <<":">> \o Sprint(port)

\* The write loop of makeJournalDirs for one file.  failAt is the number of
\* the write that fails (0: none does); a failed write stores nothing.
RECURSIVE WriteLoop(_, _, _)
WriteLoop(total, writes, failAt) ==
    IF total < preallocSize
    THEN IF writes + 1 = failAt
         THEN [err |-> <<"write failed">>, total |-> total, writes |-> writes + 1]
         ELSE WriteLoop(total + zeroesLen, writes + 1, failAt)
    ELSE [err |-> nil, total |-> total, writes |-> writes]

\* ------------------------------------------------------------- supervisor
Installed(n, name) == svc[n][name] # "absent"

Running(n, name) == svc[n][name] = "running"

\* outcomes of Service.StopAndRemove on a service in state s
StopAndRemoveOutcomes(s) ==
    IF s = "absent"
    THEN { [state |-> "absent", err |-> nil] }
    ELSE { [state |-> "absent", err |-> nil],
           [state |-> s, err |-> <<"stop failed">>],
           [state |-> "stopped", err |-> <<"remove failed">>] }

\* outcomes of Conf.Install on a service in state s
InstallOutcomes(s) ==
    IF s = "absent"
    THEN { [state |-> "stopped", err |-> nil],
           [state |-> "absent", err |-> <<"install failed">>] }
    ELSE { [state |-> s, err |-> <<"already installed">>] }

\* outcomes of Service.Start on a service in state s
StartOutcomes(s) ==
    IF s = "absent"
    THEN { [state |-> "absent", err |-> <<"unknown job">>] }
    ELSE { [state |-> "running", err |-> nil],
           [state |-> s, err |-> <<"start failed">>] }

\* ---------------------------------------------------------------- cluster
DialOutcomes(n, name) ==
    IF Running(n, name)
    THEN { nil, <<"dial timeout">> }
    ELSE { <<"no reachable servers">> }

ErrNotFound == <<"not found">>

CurrentConfigOutcomes ==
    IF rsConfig = NoConfig
    THEN { ErrNotFound, <<"query failed">> }
    ELSE { nil, <<"query failed">> }

InitiateOutcomes(address, name) ==
    IF rsConfig = NoConfig
    THEN { [config |-> [Name |-> name, Version |-> 1, Members |-> <<address>>],
            err |-> nil],
           [config |-> rsConfig, err |-> <<"initiate failed">>] }
    ELSE { [config |-> rsConfig, err |-> <<"already initialized">>] }

\* ------------------------------------------------------------------- init
Names == {oldMongoServiceName} \cup { makeServiceName(v) : v \in Versions }

\* the names a build of version v may have left installed on a node
KnownNames(v) ==
    {oldMongoServiceName} \cup
    { makeServiceName(x) : x \in { y \in Versions : firstVersionedName <= y /\ y <= v } } \cup
    { makeServiceName(v) }

IdleFrame ==
    [ pc |-> "idle", x |-> 0, address |-> nil, port |-> 0, session |-> "none" ]

FreshServices == [ name \in Names |-> "absent" ]

ServiceTables(v) ==
    { t \in [Names -> {"absent", "stopped", "running"}] :
        /\ \A name \in Names \ KnownNames(v) : t[name] = "absent"
        /\ Cardinality({ name \in Names : t[name] = "running" }) <= 1 }

EmptyJournal == [ k \in {} |-> 0 ]
FullJournal == [ k \in 0 .. numPreallocFiles - 1 |-> preallocSize ]

\* runWithTimeout has not been called
RunIdle ==
    [ main |-> "idle", worker |-> "none", val |-> nil, timedOut |-> FALSE, stops |-> 0,
      stopErr |-> nil, calls |-> 0, rets |-> <<>>, abandoned |-> 0 ]

InitCommon ==
    /\ run = RunIdle
    /\ rsConfig = NoConfig
    /\ call = [ c \in Calls |-> IdleFrame ]
    /\ ops = [ c \in Calls |-> <<>> ]
    /\ returned = [ c \in Calls |-> <<>> ]
    /\ removed = 0
    /\ asked = [ install |-> 0, start |-> 0, notFound |-> 0, initiate |-> 0 ]

\* a database has been started on the data directory of a node where a
\* service runs
EverStarted(services) ==
    [ n \in Nodes |-> \E name \in Names : services[n][name] = "running" ]

\* one node, one caller that invokes EnsureMongoServer repeatedly; any
\* script version and any set of definitions left by earlier builds
Init ==
    /\ InitCommon
    /\ curVersion \in Versions
    /\ nodeOf = [ c \in Calls |-> 1 ]
    /\ callers = {1}
    /\ budget = MaxInvocations
    /\ \E t \in ServiceTables(curVersion) :
          svc = [ n \in Nodes |-> IF n = 1 THEN t ELSE FreshServices ]
    /\ \E j \in BOOLEAN :
          /\ journalDir = [ n \in Nodes |-> n = 1 /\ j ]
          /\ files = [ n \in Nodes |-> IF n = 1 /\ j THEN FullJournal ELSE EmptyJournal ]
    /\ dbStarted = EverStarted(svc)


\* two fresh nodes of one cluster, each with a caller that bootstraps it;
\* both run this build of the agent or both run the next one
InitRace ==
    /\ InitCommon
    /\ curVersion \in { mongoScriptVersion, mongoScriptVersion + 1 }
    /\ nodeOf = [ c \in Calls |-> c ]
    /\ callers = Calls
    /\ budget = MaxRaceInvocations
    /\ svc = [ n \in Nodes |-> FreshServices ]
    /\ journalDir = [ n \in Nodes |-> FALSE ]
    /\ files = [ n \in Nodes |-> EmptyJournal ]
    /\ dbStarted = EverStarted(svc)

\* two fresh nodes of one cluster as in InitRace, with room in the budget for
\* the caller that loses the race to invoke EnsureMongoServer once more
InitRetry ==
    /\ InitCommon
    /\ curVersion \in { mongoScriptVersion, mongoScriptVersion + 1 }
    /\ nodeOf = [ c \in Calls |-> c ]
    /\ callers = Calls
    /\ budget = MaxRaceInvocations + 1
    /\ svc = [ n \in Nodes |-> FreshServices ]
    /\ journalDir = [ n \in Nodes |-> FALSE ]
    /\ files = [ n \in Nodes |-> EmptyJournal ]
    /\ dbStarted = EverStarted(svc)

\* one fresh node on which two callers invoke EnsureMongoServer with no lock
\* between them, so that their invocations may overlap
InitOverlap ==
    /\ InitCommon
    /\ curVersion \in { mongoScriptVersion, mongoScriptVersion + 1 }
    /\ nodeOf = [ c \in Calls |-> 1 ]
    /\ callers = Calls
    /\ budget = MaxRaceInvocations
    /\ svc = [ n \in Nodes |-> FreshServices ]
    /\ journalDir = [ n \in Nodes |-> FALSE ]
    /\ files = [ n \in Nodes |-> EmptyJournal ]
    /\ dbStarted = EverStarted(svc)

\* ----------------------------------------------------------------- steps
Node(c) == nodeOf[c]
Name(c) == makeServiceName(curVersion)
DbDir(c) == PathJoin(NodeDataDir(Node(c)), "db")
JournalDir(c) == PathJoin(DbDir(c), "journal")

\* the invocation of caller c records what it has asked of its environment
Log(c, entries) == [ ops EXCEPT ![c] = @ \o entries ]

Op(op, target, res) == [ op |-> op, target |-> target, res |-> res ]

Goto(c, pc) == call' = [ call EXCEPT ![c].pc = pc ]

\* the invocation returns err to its caller
Return(c, err, session) ==
    /\ call' = [ call EXCEPT ![c].pc = "done", ![c].session = session ]
    /\ returned' = [ returned EXCEPT ![c] = Append(@, err) ]

\* ensureMongoServer is entered
Begin(c) ==
    /\ call[c].pc \in {"idle", "done"}
    /\ c \in callers
    /\ budget > 0
    /\ budget' = budget - 1
    /\ call' = [ call EXCEPT ![c] =
                   [ pc |-> "removeOld", x |-> 0,
                     address |-> NodeAddress(Node(c)), port |-> NodePort(Node(c)),
                     session |-> "none" ] ]
    /\ ops' = [ ops EXCEPT ![c] = <<>> ]
    /\ UNCHANGED <<curVersion, nodeOf, callers, svc, journalDir, files, rsConfig,
                   returned, removed, asked, dbStarted, run>>

\* a build whose loop stops one version early
RemoveLoopTest_short(x, version) == x < version - 1

\* a build whose loop goes on to the name of the current version
RemoveLoopTest_inclusive(x, version) == x <= version

\* removeOldMongoServices: the test of its loop, "x < curVersion"
RemoveLoopTest(x, version) == x < version

\* a build that removes juju-db and never enters the loop over versioned names
AfterRemoval_noLoop(x, version) == "installed?"

\* where removeOldMongoServices goes after a successful removal
AfterRemoval(x, version) ==
    IF RemoveLoopTest(x, version) THEN "removeLoop" ELSE "installed?"

\* a build that goes on to the next name after a failed removal
RemovalBranch_ignored(err) == "next"

\* removeOldMongoServices: "if err := old.StopAndRemove(); err != nil"
RemovalBranch(err) == IF err # nil THEN "return" ELSE "next"

\* removeOldMongoServices: old.StopAndRemove() on the pre-versioning name
RemoveOld(c) ==
    /\ call[c].pc = "removeOld"
    /\ LET was == svc[Node(c)][oldMongoServiceName]
       IN \E o \in StopAndRemoveOutcomes(was) :
          /\ svc' = [ svc EXCEPT ![Node(c)][oldMongoServiceName] = o.state ]
          /\ ops' = Log(c, << [ op |-> "StopAndRemove", target |-> oldMongoServiceName,
                                res |-> o.err, was |-> was ] >>)
          /\ IF RemovalBranch(o.err) = "return"
             THEN Return(c, o.err, "none")
             ELSE /\ call' = [ call EXCEPT ![c].x = firstVersionedName,
                                 ![c].pc = AfterRemoval(firstVersionedName, curVersion) ]
                  /\ UNCHANGED returned
    /\ UNCHANGED <<curVersion, nodeOf, callers, budget, journalDir, files, rsConfig, removed, asked, dbStarted, run>>

\* removeOldMongoServices: one iteration of the loop over versioned names
RemoveLoop(c) ==
    /\ call[c].pc = "removeLoop"
    /\ LET x == call[c].x
           name == makeServiceName(x)
           was == svc[Node(c)][name]
       IN \E o \in StopAndRemoveOutcomes(was) :
          /\ svc' = [ svc EXCEPT ![Node(c)][name] = o.state ]
          /\ ops' = Log(c, << [ op |-> "StopAndRemove", target |-> name,
                                res |-> o.err, was |-> was ] >>)
          /\ IF RemovalBranch(o.err) = "return"
             THEN Return(c, o.err, "none")
             ELSE /\ call' = [ call EXCEPT ![c].x = x + 1,
                                           ![c].pc = AfterRemoval(x + 1, curVersion) ]
                  /\ UNCHANGED returned
    /\ UNCHANGED <<curVersion, nodeOf, callers, budget, journalDir, files, rsConfig, removed, asked, dbStarted, run>>

\* a build that preallocates and installs whether or not the definition exists
InstalledBranch_ungated(installed) == "mkdir"

\* a build that installs without preallocating the journal
InstalledBranch_noPrealloc(installed) == IF installed THEN "running?" ELSE "install"

\* ensureMongoServer: "if !service.Installed()"
InstalledBranch(installed) == IF installed THEN "running?" ELSE "mkdir"

\* ensureMongoServer: mongoUpstartService, then service.Installed()
CheckInstalled(c) ==
    /\ call[c].pc = "installed?"
    /\ Goto(c, InstalledBranch(Installed(Node(c), Name(c))))
    /\ ops' = Log(c, << Op("Installed", Name(c), Bool(Installed(Node(c), Name(c)))) >>)
    /\ UNCHANGED <<curVersion, nodeOf, callers, budget, svc, journalDir, files, rsConfig,
                   returned, removed, asked, dbStarted, run>>

\* ensureMongoServer: what it returns for an error of makeJournalDirs
JournalFailed(err) == Errorf(<<"Error creating journal directories: ">>, err)

\* a build that clears the directory when it creates a file
WithFile_alone(dir, x, size) == [ k \in {x} |-> size ]

\* the journal directory after file x has been left with size bytes
WithFile(dir, x, size) ==
    [ k \in DOMAIN dir \cup {x} |-> IF k = x THEN size ELSE dir[k] ]

\* a build whose loop over the files stops one file early
PreallocLoopTest_short(x) == x < numPreallocFiles - 1

\* makeJournalDirs: the test of its loop over the files, "x < 3"
PreallocLoopTest(x) == x < numPreallocFiles

\* makeJournalDirs: os.MkdirAll(journalDir, 0700)
MkdirAll(c) ==
    /\ call[c].pc = "mkdir"
    /\ \E err \in {nil, <<"mkdir failed">>} :
          /\ ops' = Log(c, << [ op |-> "MkdirAll", target |-> JournalDir(c), res |-> err,
                                was |-> Bool(journalDir[Node(c)]) ] >>)
          /\ IF err # nil
             THEN /\ Return(c, JournalFailed(err), "none")
                  /\ UNCHANGED journalDir
             ELSE /\ journalDir' = [ journalDir EXCEPT ![Node(c)] = TRUE ]
                  /\ call' = [ call EXCEPT ![c].x = 0,
                                 ![c].pc = IF PreallocLoopTest(0) THEN "prealloc" ELSE "install" ]
                  /\ UNCHANGED returned
    /\ UNCHANGED <<curVersion, nodeOf, callers, budget, svc, files, rsConfig, removed, asked, dbStarted, run>>

\* makeJournalDirs: one iteration of the loop over the prealloc files
Prealloc(c) ==
    /\ call[c].pc = "prealloc"
    /\ LET x == call[c].x
           filename == JournalDir(c) \o <<"/">> \o PreallocName(x)
       IN \/ \* os.OpenFile fails
             /\ ops' = Log(c, << [ op |-> "OpenFile", target |-> PreallocName(x),
                                   res |-> <<"open failed">>, writes |-> 0, total |-> 0 ] >>)
             /\ Return(c, JournalFailed(
                          Errorf(<<"failed to open mongo prealloc file ">> \o filename \o <<": ">>,
                                 <<"open failed">>)), "none")
             /\ UNCHANGED files
          \/ \* the file is created or truncated, then written
             \E failAt \in {0} \cup WriteFaultPoints :
               LET w == WriteLoop(0, 0, failAt)
               IN /\ files' = [ files EXCEPT ![Node(c)] = WithFile(@, x, w.total) ]
                  /\ ops' = Log(c, << [ op |-> "OpenFile", target |-> PreallocName(x),
                                        res |-> w.err, writes |-> w.writes,
                                        total |-> w.total ] >>)
                  /\ IF w.err # nil
                     THEN Return(c, JournalFailed(
                                  Errorf(<<"failed to write to mongo prealloc file ">>
                                         \o filename \o <<": ">>, w.err)), "none")
                     ELSE /\ call' = [ call EXCEPT ![c].x = x + 1,
                                         ![c].pc = IF PreallocLoopTest(x + 1)
                                                   THEN "prealloc" ELSE "install" ]
                          /\ UNCHANGED returned
    /\ UNCHANGED <<curVersion, nodeOf, callers, budget, svc, journalDir, rsConfig, removed, asked, dbStarted, run>>

\* ensureMongoServer: what it returns for an error of service.Install()
InstallFailed(name, err) ==
    Errorf(<<"failed to install mongo service ">> \o name \o <<": ">>, err)

\* a build that carries on after a failed Install
InstallBranch_ignored(err) == "running?"

\* ensureMongoServer: "if err != nil" after service.Install()
InstallBranch(err) == IF err # nil THEN "return" ELSE "running?"

\* ensureMongoServer: service.Install()
Install(c) ==
    /\ call[c].pc = "install"
    /\ LET service == mongoUpstartService(Name(c), NodeDataDir(Node(c)), DbDir(c), call[c].port)
       IN \E o \in InstallOutcomes(svc[Node(c)][service.Name]) :
          /\ svc' = [ svc EXCEPT ![Node(c)][service.Name] = o.state ]
          /\ ops' = Log(c, << [ op |-> "Install", target |-> service.Name,
                                res |-> o.err, conf |-> service,
                                was |-> svc[Node(c)][service.Name] ] >>)
          /\ IF InstallBranch(o.err) = "return"
             THEN Return(c, InstallFailed(service.Name, o.err), "none")
             ELSE /\ Goto(c, InstallBranch(o.err))
                  /\ UNCHANGED returned
    /\ asked' = [ asked EXCEPT !.install = @ + 1 ]
    /\ UNCHANGED <<curVersion, nodeOf, callers, budget, journalDir, files, rsConfig, removed, dbStarted, run>>

\* a build that starts the service whether or not it runs
RunningBranch_always(running) == "start"

\* a build that never starts the service
RunningBranch_never(running) == "dial"

\* ensureMongoServer: "if !service.Running()"
RunningBranch(running) == IF running THEN "dial" ELSE "start"

\* ensureMongoServer: service.Running()
CheckRunning(c) ==
    /\ call[c].pc = "running?"
    /\ Goto(c, RunningBranch(Running(Node(c), Name(c))))
    /\ ops' = Log(c, << Op("Running", Name(c), Bool(Running(Node(c), Name(c)))) >>)
    /\ UNCHANGED <<curVersion, nodeOf, callers, budget, svc, journalDir, files, rsConfig,
                   returned, removed, asked, dbStarted, run>>

\* a build that reports a failed Start under the message of the journal step
StartFailed_asJournal(name, err) == Errorf(<<"Error creating journal directories: ">>, err)

\* ensureMongoServer: what it returns for an error of service.Start()
StartFailed(name, err) == Errorf(<<"failed to start ">> \o name \o <<" service: ">>, err)

\* ensureMongoServer: service.Start()
Start(c) ==
    /\ call[c].pc = "start"
    /\ \E o \in StartOutcomes(svc[Node(c)][Name(c)]) :
          /\ svc' = [ svc EXCEPT ![Node(c)][Name(c)] = o.state ]
          /\ ops' = Log(c, << Op("Start", Name(c), o.err) >>)
          /\ dbStarted' = [ dbStarted EXCEPT ![Node(c)] = @ \/ o.err = nil ]
          /\ IF o.err # nil
             THEN Return(c, StartFailed(Name(c), o.err), "none")
             ELSE /\ Goto(c, "dial")
                  /\ UNCHANGED returned
    /\ asked' = [ asked EXCEPT !.start = @ + 1 ]
    /\ UNCHANGED <<curVersion, nodeOf, callers, budget, journalDir, files, rsConfig, removed, run>>

\* a build that only logs the error of initiateReplicaSet
EnsureResult_dropped(err) == nil

\* ensureMongoServer: what it returns for the result of initiateReplicaSet
EnsureResult(err) ==
    IF err # nil THEN Errorf(<<"failed to initiate mongo replicaset: ">>, err) ELSE nil

\* initiateReplicaSet: what it returns for an error of mgo.DialWithInfo
DialFailed(err) == Errorf(<<"can't dial mongo to initiate replicaset: ">>, err)

\* initiateReplicaSet: mgo.DialWithInfo(info)
Dial(c) ==
    /\ call[c].pc = "dial"
    /\ \E err \in DialOutcomes(Node(c), Name(c)) :
          /\ ops' = Log(c, << Op("DialWithInfo", call[c].address, err) >>)
          /\ IF err # nil
             THEN Return(c, EnsureResult(DialFailed(err)), "none")
             ELSE /\ call' = [ call EXCEPT ![c].pc = "query", ![c].session = "open" ]
                  /\ UNCHANGED returned
    /\ UNCHANGED <<curVersion, nodeOf, callers, budget, svc, journalDir, files, rsConfig, removed, asked, dbStarted, run>>

\* a build that initiates on any error of CurrentConfig
ShouldInitiate_anyError(err) == err # nil

\* a build that initiates whatever CurrentConfig returned
ShouldInitiate_always(err) == TRUE

\* a build that initiates on the errors other than not-found
ShouldInitiate_inverted(err) == err # nil /\ err # ErrNotFound

\* initiateReplicaSet: "if err == mgo.ErrNotFound" after CurrentConfig
ShouldInitiate(err) == err = ErrNotFound

\* a build that reports the result of CurrentConfig as an error even when it is nil
ConfigResult_noTest(err) == Errorf(<<"error getting replicaset config: ">>, err)

\* initiateReplicaSet: what it returns when CurrentConfig did not say not-found
ConfigResult(err) ==
    IF err # nil THEN Errorf(<<"error getting replicaset config: ">>, err) ELSE nil

\* a build that refreshes the session where it should close it
Close_refresh == Op("Refresh", nil, nil)

\* the deferred session.Close()
Close == Op("Close", nil, nil)

\* the cluster has answered a config query with err
Answered(err) ==
    IF err = ErrNotFound THEN [ asked EXCEPT !.notFound = @ + 1 ] ELSE asked

\* initiateReplicaSet: replicaset.CurrentConfig(session) and the tests of its
\* error; on return the deferred session.Close() runs
CurrentConfig(c) ==
    /\ call[c].pc = "query"
    /\ \E err \in CurrentConfigOutcomes :
          IF ShouldInitiate(err)
          THEN /\ ops' = Log(c, << Op("CurrentConfig", nil, err) >>)
               /\ Goto(c, "initiate")
               /\ asked' = Answered(err)
               /\ UNCHANGED returned
          ELSE /\ ops' = Log(c, << Op("CurrentConfig", nil, err), Close >>)
               /\ Return(c, EnsureResult(ConfigResult(err)), "closed")
               /\ asked' = Answered(err)
    /\ UNCHANGED <<curVersion, nodeOf, callers, budget, svc, journalDir, files, rsConfig,
                   removed, dbStarted, run>>

\* a build that swallows the error of replicaset.Initiate
InitiateResult_suppressed(err) == nil

\* initiateReplicaSet: what it returns for the result of replicaset.Initiate
InitiateResult(err) ==
    IF err # nil THEN Errorf(<<"error from mongo initiate: ">>, err) ELSE nil

\* initiateReplicaSet: replicaset.Initiate(session, address, replicaSetName);
\* on return the deferred session.Close() runs
Initiate(c) ==
    /\ call[c].pc = "initiate"
    /\ LET address == SeedAddress(call[c].address, call[c].port)
       IN \E o \in InitiateOutcomes(address, replicaSetName) :
          /\ rsConfig' = o.config
          /\ ops' = Log(c, << [ op |-> "Initiate", target |-> address, res |-> o.err,
                                name |-> replicaSetName ], Close >>)
          /\ Return(c, EnsureResult(InitiateResult(o.err)), "closed")
    /\ asked' = [ asked EXCEPT !.initiate = @ + 1 ]
    /\ UNCHANGED <<curVersion, nodeOf, callers, budget, svc, journalDir, files, removed, dbStarted, run>>

\* a build whose RemoveService still names the pre-versioning definition
RemoveServiceTarget_old(version) == oldMongoServiceName

\* RemoveService: upstart.NewService(makeServiceName(mongoScriptVersion))
RemoveServiceTarget(version) == makeServiceName(version)

\* RemoveService: StopAndRemove of the current version's definition
RemoveService(n) ==
    /\ removed < MaxRemoveService
    /\ \E o \in StopAndRemoveOutcomes(svc[n][RemoveServiceTarget(curVersion)]) :
          svc' = [ svc EXCEPT ![n][RemoveServiceTarget(curVersion)] = o.state ]
    /\ removed' = removed + 1
    /\ UNCHANGED <<curVersion, nodeOf, callers, budget, journalDir, files, rsConfig,
                   call, ops, returned, asked, dbStarted, run>>

\* the nodes that run an agent
ActiveNodes == { nodeOf[c] : c \in callers }

Next ==
    \/ \E c \in Calls :
          \/ Begin(c)
          \/ RemoveOld(c)
          \/ RemoveLoop(c)
          \/ CheckInstalled(c)
          \/ MkdirAll(c)
          \/ Prealloc(c)
          \/ Install(c)
          \/ CheckRunning(c)
          \/ Start(c)
          \/ Dial(c)
          \/ CurrentConfig(c)
          \/ Initiate(c)
    \/ \E n \in ActiveNodes : RemoveService(n)

Spec == Init /\ [][Next]_vars

SpecRace == InitRace /\ [][Next]_vars

\* the steps of the EnsureMongoServer invocations alone: nobody calls
\* RemoveService
NextCalls ==
    \E c \in Calls :
          \/ Begin(c)
          \/ RemoveOld(c)
          \/ RemoveLoop(c)
          \/ CheckInstalled(c)
          \/ MkdirAll(c)
          \/ Prealloc(c)
          \/ Install(c)
          \/ CheckRunning(c)
          \/ Start(c)
          \/ Dial(c)
          \/ CurrentConfig(c)
          \/ Initiate(c)

SpecRetry == InitRetry /\ [][NextCalls]_vars

SpecOverlap == InitOverlap /\ [][NextCalls]_vars

\* ------------------------------------------------- the helper runWithTimeout
\* what the runner handed to runWithTimeout may answer from Run and from Stop
RunErrors == { nil, <<"run failed">>, <<"agent is dying">> }
StopErrors == { nil, <<"stop failed">> }

\* the verb %v applied to an error
ErrV(err) == IF err = nil THEN <<"<nil>">> ELSE err

\* a build whose timed-out error leaves out what Stop answered
TimedOut_bare(err) == <<"timed out waiting for agent to finish">>
TimedOut(err) == Errorf(<<"timed out waiting for agent to finish; stop error: ">>, ErrV(err))

\* a test calls runWithTimeout on a machine where nothing of the database is
\* set up; no agent invokes EnsureMongoServer
InitRun ==
    /\ InitCommon
    /\ curVersion = mongoScriptVersion
    /\ nodeOf = [ c \in Calls |-> 1 ]
    /\ callers = {}
    /\ budget = 0
    /\ svc = [ n \in Nodes |-> FreshServices ]
    /\ journalDir = [ n \in Nodes |-> FALSE ]
    /\ files = [ n \in Nodes |-> EmptyJournal ]
    /\ dbStarted = EverStarted(svc)

mongoVars == <<curVersion, nodeOf, callers, budget, svc, journalDir, files, rsConfig,
               call, ops, returned, removed, asked, dbStarted>>

\* runWithTimeout is entered: it makes the channel done, starts the goroutine
\* that calls r.Run and waits in the select.  The goroutine of an earlier
\* call that nobody received from is left behind.
Go ==
    /\ run.main \in {"idle", "returned"}
    /\ run.calls < MaxRuns
    /\ run' = [ run EXCEPT !.main = "select",
                           !.worker = "running",
                           !.val = nil,
                           !.timedOut = FALSE,
                           !.stops = 0,
                           !.stopErr = nil,
                           !.calls = @ + 1,
                           !.abandoned = @ + (IF run.worker \in {"running", "send"}
                                              THEN 1 ELSE 0) ]
    /\ UNCHANGED mongoVars

\* r.Run returns in the goroutine, which goes on to send the error on done
RunReturns ==
    /\ run.worker = "running"
    /\ \E err \in RunErrors :
          run' = [ run EXCEPT !.worker = "send", !.val = err ]
    /\ UNCHANGED mongoVars

\* case err := <-done: the send of the goroutine meets the receive of the
\* select; runWithTimeout returns what it received and the goroutine exits
RecvDone ==
    /\ run.main = "select"
    /\ run.worker = "send"
    /\ run' = [ run EXCEPT !.main = "returned",
                           !.worker = "exited",
                           !.rets = Append(@, run.val) ]
    /\ UNCHANGED mongoVars

\* case <-time.After(5 * time.Second): the timer fires while runWithTimeout
\* waits in the select
TimeAfter ==
    /\ run.main = "select"
    /\ run' = [ run EXCEPT !.main = "stop", !.timedOut = TRUE ]
    /\ UNCHANGED mongoVars

\* err := r.Stop() and the return of the timed-out error
Stop ==
    /\ run.main = "stop"
    /\ \E err \in StopErrors :
          run' = [ run EXCEPT !.main = "returned",
                              !.stops = @ + 1,
                              !.stopErr = err,
                              !.rets = Append(@, TimedOut(err)) ]
    /\ UNCHANGED mongoVars

NextRun ==
    \/ Go
    \/ RunReturns
    \/ RecvDone
    \/ TimeAfter
    \/ Stop

SpecRun == InitRun /\ [][NextRun]_vars

\* ------------------------------------------------------------- properties
Count(log, op) == Cardinality({ i \in DOMAIN log : log[i].op = op })

Has(log, op) == \E i \in DOMAIN log : log[i].op = op

Done(c) == call[c].pc = "done"

Result(c) == returned[c][Len(returned[c])]

\* the errors the environment injects, as opposed to those a state causes
InjectedFaults ==
    { <<"stop failed">>, <<"remove failed">>, <<"mkdir failed">>, <<"open failed">>,
      <<"write failed">>, <<"install failed">>, <<"start failed">>, <<"dial timeout">>,
      <<"query failed">>, <<"initiate failed">> }

\* entry e records an operation that reported an error to the engine
Failed(e) ==
    /\ e.op \notin {"Installed", "Running"}
    /\ e.res # nil
    /\ ~(e.op = "CurrentConfig" /\ e.res = ErrNotFound)

\* err ends with the message of cause
CausedBy(err, cause) ==
    /\ Len(err) >= Len(cause)
    /\ SubSeq(err, Len(err) - Len(cause) + 1, Len(err)) = cause

\* C1: when an invocation follows a successful one with no RemoveService in
\* between and none of its operations is made to fail, it returns nil having
\* issued no MkdirAll, OpenFile, Install, Start or Initiate: only the removal
\* scan (which finds nothing), the two supervisor tests, one dial, one config
\* query and the close of the session.
C1_Idempotence ==
    \A c \in Calls :
       ( /\ Done(c)
         /\ Len(returned[c]) >= 2
         /\ returned[c][Len(returned[c]) - 1] = nil
         /\ removed = 0
         /\ \A i \in DOMAIN ops[c] : ops[c][i].res \notin InjectedFaults )
       => /\ Result(c) = nil
          /\ \A i \in DOMAIN ops[c] :
                /\ ops[c][i].op \in {"StopAndRemove", "Installed", "Running",
                                     "DialWithInfo", "CurrentConfig", "Close"}
                /\ ops[c][i].op = "StopAndRemove" => ops[c][i].was = "absent"
          /\ Count(ops[c], "DialWithInfo") = 1
          /\ Count(ops[c], "CurrentConfig") = 1

\* the second call in succession on a node that the first call bootstrapped
C1_Witness ==
    /\ Done(1) /\ returned[1] = <<nil, nil>> /\ removed = 0
    /\ asked = [ install |-> 1, start |-> 1, notFound |-> 1, initiate |-> 1 ]
    /\ Count(ops[1], "CurrentConfig") = 1

\* c has returned from an invocation whose query said not-found and whose
\* initiate the cluster itself decided
Raced(c) ==
    /\ Done(c)
    /\ \E i \in DOMAIN ops[c] : ops[c][i].op = "CurrentConfig" /\ ops[c][i].res = ErrNotFound
    /\ \A i \in DOMAIN ops[c] : ops[c][i].op = "Initiate" => ops[c][i].res # <<"initiate failed">>

LostRace ==
    <<"failed to initiate mongo replicaset: ", "error from mongo initiate: ",
      "already initialized">>

\* C2: when the invocations of two callers both saw not-found and the
\* cluster accepts the first initiate and rejects the second, exactly one of
\* them returns nil and the other returns the initiate error, each having
\* issued one initiate.
C2_RaceSafety ==
    (Raced(1) /\ Raced(2))
    => /\ \/ Result(1) = nil /\ Result(2) = LostRace
          \/ Result(2) = nil /\ Result(1) = LostRace
       /\ Count(ops[1], "Initiate") = 1
       /\ Count(ops[2], "Initiate") = 1

C2_Witness == Raced(1) /\ Raced(2) /\ Result(1) = LostRace /\ Result(2) = nil

\* C3: when the cluster has answered not-found exactly once and no caller
\* stands between its query and its initiate, exactly one initiate has been
\* issued, whatever the number of invocations.
C3_SingleInitiate ==
    (asked.notFound = 1 /\ \A c \in Calls : call[c].pc # "initiate")
    => asked.initiate = 1

C3_Witness ==
    /\ asked.notFound = 1 /\ asked.initiate = 1
    /\ Done(1) /\ Len(returned[1]) = 2
    /\ ~Has(ops[1], "Initiate")
    /\ \E i \in DOMAIN ops[1] : ops[1][i].op = "CurrentConfig" /\ ops[1][i].res = nil

InstalledNames(n) == { name \in Names : svc[n][name] # "absent" }

\* C4: for a script version of 2 or more, when an invocation has returned
\* nil and RemoveService has not been called, the definitions installed on
\* its node are exactly the one of the current version: juju-db and every
\* juju-db-v<x> with x below the current version are gone.
C4_LegacyCleanup ==
    \A c \in Calls :
       (curVersion >= 2 /\ Done(c) /\ Result(c) = nil /\ removed = 0)
       => InstalledNames(Node(c)) = { <<"juju-db-v", ToString(curVersion)>> }

C4_Witness ==
    /\ curVersion = 3 /\ Done(1) /\ Result(1) = nil /\ removed = 0
    /\ \E i \in DOMAIN ops[1] :
          /\ ops[1][i].op = "StopAndRemove" /\ ops[1][i].target = <<"juju-db">>
          /\ ops[1][i].was = "running"
    /\ \E i \in DOMAIN ops[1] :
          /\ ops[1][i].op = "StopAndRemove" /\ ops[1][i].target = <<"juju-db-v", "2">>
          /\ ops[1][i].was = "stopped"

\* C5: an operation that fails is the last one of its invocation, but for
\* the close of the session; the invocation then returns an error that
\* carries the failure, and it returns nil only when nothing failed.
C5_ShortCircuit ==
    \A c \in Calls :
       /\ \A i \in DOMAIN ops[c] :
             Failed(ops[c][i])
             => /\ \A j \in DOMAIN ops[c] : j > i => ops[c][j].op = "Close"
                /\ Done(c)
                /\ Result(c) # nil
                /\ CausedBy(Result(c), ops[c][i].res)
                /\ ops[c][i].op = "Install" =>
                      ~\E j \in DOMAIN ops[c] :
                          ops[c][j].op \in {"Start", "DialWithInfo", "CurrentConfig", "Initiate"}
                /\ ops[c][i].op = "Start" =>
                      ~\E j \in DOMAIN ops[c] :
                          ops[c][j].op \in {"DialWithInfo", "CurrentConfig", "Initiate"}
                /\ ops[c][i].op = "DialWithInfo" =>
                      ~\E j \in DOMAIN ops[c] :
                          ops[c][j].op \in {"CurrentConfig", "Initiate", "Close"}
       /\ (Done(c) /\ Result(c) # nil) => \E i \in DOMAIN ops[c] : Failed(ops[c][i])

C5_Witness ==
    /\ Done(1)
    /\ ops[1][Len(ops[1])].op = "Install"
    /\ ops[1][Len(ops[1])].res = <<"install failed">>
    /\ Result(1) = <<"failed to install mongo service ", "juju-db-v", "2", ": ",
                     "install failed">>

\* the targets of the entries of log that record op, in order
RECURSIVE Targets(_, _)
Targets(log, op) ==
    IF log = <<>> THEN <<>>
    ELSE IF Head(log).op = op THEN <<Head(log).target>> \o Targets(Tail(log), op)
         ELSE Targets(Tail(log), op)

\* C6: when an invocation that ran the preallocator has returned nil, the
\* journal directory of its node exists and holds exactly the files of
\* ordinals 0, 1 and 2, written under the names prealloc.0, prealloc.1 and
\* prealloc.2, each of at least 1048576 bytes.
C6_PreallocInvariant ==
    \A c \in Calls :
       (Done(c) /\ Result(c) = nil /\ Has(ops[c], "MkdirAll"))
       => /\ journalDir[Node(c)]
          /\ DOMAIN files[Node(c)] = {0, 1, 2}
          /\ \A k \in DOMAIN files[Node(c)] : files[Node(c)][k] >= 1048576
          /\ Targets(ops[c], "OpenFile") =
                << <<"prealloc.", "0">>, <<"prealloc.", "1">>, <<"prealloc.", "2">> >>

\* the first invocation on a node with no journal directory has succeeded
C6_Witness ==
    /\ Done(1) /\ returned[1] = <<nil>>
    /\ \E i \in DOMAIN ops[1] : ops[1][i].op = "MkdirAll" /\ ops[1][i].was = Bool(FALSE)
    /\ DOMAIN files[1] = {0, 1, 2}

\* the place of an operation in the sequence of ensureMongoServer
Rank(op) ==
    CASE op = "StopAndRemove" -> 1
      [] op = "Installed"     -> 2
      [] op = "MkdirAll"      -> 3
      [] op = "OpenFile"      -> 4
      [] op = "Install"       -> 5
      [] op = "Running"       -> 6
      [] op = "Start"         -> 7
      [] op = "DialWithInfo"  -> 8
      [] op = "CurrentConfig" -> 9
      [] op = "Initiate"      -> 10
      [] op = "Close"         -> 11

\* the names removeOldMongoServices removes for a script version, in order
RECURSIVE VersionedNamesFrom(_, _)
VersionedNamesFrom(x, version) ==
    IF x < version THEN << <<"juju-db-v", ToString(x)>> >> \o VersionedNamesFrom(x + 1, version)
    ELSE <<>>

LegacyNames(version) == << <<"juju-db">> >> \o VersionedNamesFrom(2, version)

\* C7: the operations of an invocation follow the order removal, Installed
\* test, MkdirAll, OpenFile, Install, Running test, Start, dial, query,
\* initiate, close, each but the removals and OpenFile at most once; the
\* Installed test and everything after it come after all the removals
\* succeeded; Install comes after MkdirAll and the three files, only when
\* the definition was seen not installed; Start comes only when the service
\* was seen not running; the dial comes only after the service was seen
\* running or was started.
C7_StepOrder ==
    \A c \in Calls :
       LET log == ops[c]
           Before(i, op, res) ==
               \E j \in 1 .. i - 1 : log[j].op = op /\ log[j].res = res
       IN /\ \A i \in 1 .. Len(log) - 1 :
                /\ Rank(log[i].op) <= Rank(log[i + 1].op)
                /\ Rank(log[i].op) = Rank(log[i + 1].op)
                      => log[i].op \in {"StopAndRemove", "OpenFile"}
          /\ Has(log, "Installed") =>
                /\ Targets(log, "StopAndRemove") = LegacyNames(curVersion)
                /\ \A j \in DOMAIN log : log[j].op = "StopAndRemove" => log[j].res = nil
          /\ \A i \in DOMAIN log :
                CASE log[i].op = "StopAndRemove" -> TRUE
                  [] log[i].op = "Installed" -> i > 1 /\ log[i - 1].op = "StopAndRemove"
                  [] log[i].op = "MkdirAll" -> Before(i, "Installed", Bool(FALSE))
                  [] log[i].op = "OpenFile" -> Before(i, "MkdirAll", nil)
                  [] log[i].op = "Install" ->
                        /\ Before(i, "MkdirAll", nil)
                        /\ Count(log, "OpenFile") = 3
                        /\ \A j \in DOMAIN log : log[j].op = "OpenFile" => log[j].res = nil
                  [] log[i].op = "Running" ->
                        Before(i, "Installed", Bool(TRUE)) \/ Before(i, "Install", nil)
                  [] log[i].op = "Start" -> Before(i, "Running", Bool(FALSE))
                  [] log[i].op = "DialWithInfo" ->
                        Before(i, "Running", Bool(TRUE)) \/ Before(i, "Start", nil)
                  [] log[i].op = "CurrentConfig" -> Before(i, "DialWithInfo", nil)
                  [] log[i].op = "Initiate" -> Before(i, "CurrentConfig", ErrNotFound)
                  [] log[i].op = "Close" -> Before(i, "DialWithInfo", nil)

\* an invocation that went through every step, on a node with two legacy names
C7_Witness ==
    /\ curVersion = 3 /\ Done(1) /\ Result(1) = nil
    /\ Has(ops[1], "Install") /\ Has(ops[1], "Start") /\ Has(ops[1], "Initiate")
    /\ Count(ops[1], "StopAndRemove") = 2

\* the entries the step has added to the log of c
Added(c) == SubSeq(ops'[c], Len(ops[c]) + 1, Len(ops'[c]))

\* C8: the step in which the config query of an invocation finds an existing
\* configuration ends the invocation with nil; it issues nothing but the
\* query and the close of the session, and leaves the cluster's configuration,
\* the services and the journal as they were.
C8_AlreadyConverged ==
    [][ \A c \in Calls :
          ( /\ call[c].pc = "query"
            /\ ops'[c] # ops[c]
            /\ Added(c)[1].op = "CurrentConfig"
            /\ Added(c)[1].res = nil )
          => /\ Added(c) = << [op |-> "CurrentConfig", target |-> <<>>, res |-> <<>>],
                              [op |-> "Close", target |-> <<>>, res |-> <<>>] >>
             /\ call'[c].pc = "done"
             /\ returned'[c] = Append(returned[c], <<>>)
             /\ rsConfig' = rsConfig
             /\ asked' = asked
             /\ svc' = svc /\ files' = files /\ journalDir' = journalDir
      ]_vars

C8_Witness ==
    /\ Done(1) /\ Result(1) = nil
    /\ rsConfig # NoConfig
    /\ \E i \in DOMAIN ops[1] : ops[1][i].op = "CurrentConfig" /\ ops[1][i].res = nil
    /\ ~Has(ops[1], "Initiate")

QueryFailed ==
    <<"failed to initiate mongo replicaset: ", "error getting replicaset config: ",
      "query failed">>

\* C9: an initiate is issued only right after the invocation's own config
\* query said not-found; an invocation whose query fails otherwise has
\* returned the query error and has issued no initiate.
C9_OnlyNotFound ==
    \A c \in Calls :
       /\ call[c].pc = "initiate" =>
             /\ ops[c][Len(ops[c])].op = "CurrentConfig"
             /\ ops[c][Len(ops[c])].res = ErrNotFound
       /\ \A i \in DOMAIN ops[c] :
             /\ ops[c][i].op = "Initiate" =>
                   /\ i > 1
                   /\ ops[c][i - 1].op = "CurrentConfig"
                   /\ ops[c][i - 1].res = ErrNotFound
             /\ (ops[c][i].op = "CurrentConfig" /\ ops[c][i].res \notin {nil, ErrNotFound}) =>
                   /\ ~Has(ops[c], "Initiate")
                   /\ Done(c)
                   /\ Result(c) = QueryFailed

C9_Witness ==
    /\ Done(1) /\ Result(1) = QueryFailed
    /\ rsConfig = NoConfig
    /\ ~Has(ops[1], "Initiate")

ExpectedSeed(n) ==
    IF n = 1 THEN <<"10.0.0.1", ":", "37017">> ELSE <<"10.0.0.2", ":", "37018">>

\* C10: an invocation issues at most one dial, one config query and one
\* initiate; the initiate names the seed "<address>:<port>" of the caller's
\* node and the set "juju"; a dial, query or initiate that fails ends the
\* invocation, which returns an error carrying the failure.
C10_SingleInitiatePerCall ==
    \A c \in Calls :
       /\ Count(ops[c], "DialWithInfo") <= 1
       /\ Count(ops[c], "CurrentConfig") <= 1
       /\ Count(ops[c], "Initiate") <= 1
       /\ \A i \in DOMAIN ops[c] :
             /\ ops[c][i].op = "Initiate" =>
                   /\ ops[c][i].target = ExpectedSeed(Node(c))
                   /\ ops[c][i].name = <<"juju">>
             /\ (ops[c][i].op \in {"DialWithInfo", "CurrentConfig", "Initiate"}
                   /\ Failed(ops[c][i])) =>
                   /\ Done(c)
                   /\ Result(c)[1] = "failed to initiate mongo replicaset: "
                   /\ CausedBy(Result(c), ops[c][i].res)
                   /\ \A j \in DOMAIN ops[c] : j > i => ops[c][j].op = "Close"

C10_Witness ==
    /\ Done(2)
    /\ \E i \in DOMAIN ops[2] :
          /\ ops[2][i].op = "Initiate"
          /\ ops[2][i].target = <<"10.0.0.2", ":", "37018">>
          /\ ops[2][i].res = <<"initiate failed">>
    /\ Result(2) = <<"failed to initiate mongo replicaset: ", "error from mongo initiate: ",
                     "initiate failed">>

\* c has returned from an invocation none of whose operations was made to fail
FaultFree(c) ==
    /\ Done(c)
    /\ \A i \in DOMAIN ops[c] : ops[c][i].res \notin InjectedFaults

\* the node of c is converged: the current definition is installed and
\* running and the cluster holds a configuration
Converged(c) ==
    /\ svc[Node(c)][makeServiceName(curVersion)] = "running"
    /\ rsConfig # NoConfig

\* C11: when an invocation follows one that returned an error, whichever
\* step failed in it, and RemoveService has not been called and none of the
\* operations of the later invocation is made to fail, the later invocation
\* returns nil and leaves the current definition installed and running and
\* the cluster with a configuration.
C11_ResumeSafety ==
    \A c \in Calls :
       ( /\ FaultFree(c)
         /\ Len(returned[c]) >= 2
         /\ returned[c][Len(returned[c]) - 1] # nil
         /\ removed = 0 )
       => /\ Result(c) = nil
          /\ \A i \in DOMAIN ops[c] : ~Failed(ops[c][i])
          /\ Converged(c)

\* the invocation after one whose Start failed
C11_Witness ==
    /\ FaultFree(1) /\ removed = 0
    /\ returned[1] = << <<"failed to start ", "juju-db-v", "2", " service: ", "start failed">>,
                        nil >>
    /\ Converged(1)
    /\ Has(ops[1], "Start") /\ ~Has(ops[1], "Install")

\* C12: when the invocation before this one of a caller lost the race for
\* the initiate (it returned the error of an initiate the cluster rejected
\* as already initialized), and RemoveService has not been called and no
\* operation of this invocation is made to fail, this invocation returns nil
\* and issues no initiate: its query finds the configuration of the winner.
C12_LoserRetries ==
    \A c \in Calls :
       ( /\ FaultFree(c)
         /\ Len(returned[c]) >= 2
         /\ returned[c][Len(returned[c]) - 1] = LostRace
         /\ removed = 0 )
       => /\ Result(c) = nil
          /\ ~Has(ops[c], "Initiate")
          /\ \E i \in DOMAIN ops[c] : ops[c][i].op = "CurrentConfig" /\ ops[c][i].res = nil
          /\ rsConfig # NoConfig

\* caller 1 won the race, caller 2 lost it and has retried
C12_Witness ==
    /\ Done(1) /\ returned[1] = <<nil>> /\ Has(ops[1], "Initiate")
    /\ Done(2) /\ returned[2] = <<LostRace, nil>>
    /\ rsConfig.Members = << <<"10.0.0.1", ":", "37017">> >>

\* C13: makeJournalDirs never runs on the journal directory of a node on
\* whose data directory a database service, of the current or of a legacy
\* name, has been started: no invocation stands in the loop that truncates
\* and rewrites the prealloc files of such a node.
C13_NeverRecreated ==
    \A c \in Calls : call[c].pc = "prealloc" => ~dbStarted[Node(c)]

\* c has returned the error of makeJournalDirs
PreallocError(c) ==
    /\ Done(c)
    /\ Result(c) # nil
    /\ Result(c)[1] = "Error creating journal directories: "

\* C14 as stated: in an invocation that returns a preallocation error no
\* supervisor operation has changed the state of a service: no Install, no
\* Start, and no StopAndRemove but of a definition that was absent.
C14_NoMutationBefore ==
    \A c \in Calls :
       PreallocError(c)
       => \A i \in DOMAIN ops[c] :
             /\ ops[c][i].op \notin {"Install", "Start"}
             /\ ops[c][i].op = "StopAndRemove" => ops[c][i].was = "absent"

\* C14, amended: an invocation in which MkdirAll, the opening of a prealloc
\* file or a write to it fails returns the preallocation error at once,
\* having issued no Install and no Start, and the definition of the current
\* version is still not installed; the removals of the legacy definitions
\* came before and all succeeded, so legacy services may have been stopped
\* and removed by the invocation.
C14_PreallocAborts ==
    \A c \in Calls :
       /\ \A i \in DOMAIN ops[c] :
             (ops[c][i].op \in {"MkdirAll", "OpenFile"} /\ ops[c][i].res # nil)
             => /\ PreallocError(c)
                /\ i = Len(ops[c])
       /\ PreallocError(c)
          => /\ ops[c][Len(ops[c])].op \in {"MkdirAll", "OpenFile"}
             /\ ops[c][Len(ops[c])].res # nil
             /\ ~Has(ops[c], "Install") /\ ~Has(ops[c], "Start")
             /\ ~Installed(Node(c), Name(c))
             /\ Targets(ops[c], "StopAndRemove") = LegacyNames(curVersion)
             /\ \A i \in DOMAIN ops[c] : ops[c][i].op = "StopAndRemove" => ops[c][i].res = nil

\* a write to the second file failed after the invocation had stopped and
\* removed a running juju-db
C14_Witness ==
    /\ PreallocError(1)
    /\ CausedBy(Result(1), <<"write failed">>)
    /\ Count(ops[1], "OpenFile") = 2
    /\ \E i \in DOMAIN ops[1] :
          /\ ops[1][i].op = "StopAndRemove" /\ ops[1][i].target = <<"juju-db">>
          /\ ops[1][i].was = "running" /\ ops[1][i].res = nil
    /\ svc[1][<<"juju-db">>] = "absent"

\* sequence t occurs in sequence s
Contains(s, t) ==
    \E i \in 1 .. Len(s) - Len(t) + 1 : SubSeq(s, i, i + Len(t) - 1) = t

\* the first invocation of caller 1 (address 10.0.0.1, port 37017) of a build
\* of version 2 has returned; it found no definition installed and no journal
\* directory, nothing was made to fail and RemoveService was not called
EndToEnd ==
    /\ curVersion = 2
    /\ FaultFree(1) /\ Len(returned[1]) = 1 /\ removed = 0
    /\ \A i \in DOMAIN ops[1] :
          /\ ops[1][i].op = "StopAndRemove" => ops[1][i].was = "absent"
          /\ ops[1][i].op = "Installed" => ops[1][i].res = Bool(FALSE)
          /\ ops[1][i].op = "MkdirAll" => ops[1][i].was = Bool(FALSE)

\* C15: in the end-to-end scenario the invocation returns nil after exactly
\* these operations: the removal scan, the Installed test, MkdirAll, the
\* three prealloc files, one Install of juju-db-v2 whose command line holds
\* "--port 37017" and "--replSet juju", the Running test, one Start, one
\* dial, one config query answered not-found, one initiate of the set juju
\* with seed 10.0.0.1:37017, and the close; the three files are full, the
\* service runs and the cluster holds the configuration with that seed.
C15_EndToEnd ==
    EndToEnd
    => /\ Result(1) = nil
       /\ [ i \in DOMAIN ops[1] |-> ops[1][i].op ] =
             << "StopAndRemove", "Installed", "MkdirAll", "OpenFile", "OpenFile", "OpenFile",
                "Install", "Running", "Start", "DialWithInfo", "CurrentConfig", "Initiate",
                "Close" >>
       /\ files[1] = [ k \in {0, 1, 2} |-> 1048576 ]
       /\ ops[1][7].target = <<"juju-db-v", "2">>
       /\ ops[1][7].conf.Name = <<"juju-db-v", "2">>
       /\ Contains(ops[1][7].conf.Cmd, <<" --port ", "37017">>)
       /\ Contains(ops[1][7].conf.Cmd, <<" --replSet ", "juju">>)
       /\ ops[1][9].target = <<"juju-db-v", "2">>
       /\ ops[1][11].res = <<"not found">>
       /\ ops[1][12].target = <<"10.0.0.1", ":", "37017">>
       /\ ops[1][12].name = <<"juju">>
       /\ InstalledNames(1) = { <<"juju-db-v", "2">> }
       /\ svc[1][<<"juju-db-v", "2">>] = "running"
       /\ rsConfig.Members = << <<"10.0.0.1", ":", "37017">> >>
       /\ asked = [ install |-> 1, start |-> 1, notFound |-> 1, initiate |-> 1 ]

C15_Witness ==
    /\ EndToEnd
    /\ Len(ops[1]) = 13
    /\ call[1].address = <<"10.0.0.1">> /\ call[1].port = 37017
    /\ rsConfig # NoConfig

\* C16 as stated: in the end-to-end scenario the invocation issues no
\* StopAndRemove.
C16_NoRemovalRequest ==
    EndToEnd => ~Has(ops[1], "StopAndRemove")

\* C16, amended: in the end-to-end scenario the invocation issues exactly
\* one StopAndRemove, its first operation, for juju-db, which was absent; the
\* request succeeds and no definition is stopped or removed.
C16_OneEmptyRemoval ==
    EndToEnd
    => /\ Count(ops[1], "StopAndRemove") = 1
       /\ ops[1][1] = [ op |-> "StopAndRemove", target |-> <<"juju-db">>, res |-> nil,
                        was |-> "absent" ]

C16_Witness ==
    /\ EndToEnd
    /\ Result(1) = nil
    /\ Targets(ops[1], "StopAndRemove") = << <<"juju-db">> >>

\* C17: no step of an EnsureMongoServer invocation issues a StopAndRemove
\* for the definition of the current version, none takes a file out of a
\* journal directory, and a step that takes the definition of the current
\* version from installed to absent is a RemoveService call.
C17_NoImplicitDestruction ==
    [][ /\ \A c \in Calls :
             \A i \in DOMAIN Added(c) :
                Added(c)[i].op = "StopAndRemove"
                => Added(c)[i].target # <<"juju-db-v", ToString(curVersion)>>
        /\ \A n \in Nodes :
             /\ DOMAIN files[n] \subseteq DOMAIN files'[n]
             /\ journalDir[n] => journalDir'[n]
             /\ ( /\ svc[n][<<"juju-db-v", ToString(curVersion)>>] # "absent"
                  /\ svc'[n][<<"juju-db-v", ToString(curVersion)>>] = "absent" )
                => /\ removed' = removed + 1
                   /\ ops' = ops /\ call' = call /\ returned' = returned
      ]_vars

\* an invocation of version 3 removed two running or stopped legacy
\* definitions and left the installed definition of version 3 in place
C17_Witness ==
    /\ curVersion = 3 /\ Done(1) /\ removed = 0
    /\ Targets(ops[1], "StopAndRemove") = << <<"juju-db">>, <<"juju-db-v", "2">> >>
    /\ \E i \in DOMAIN ops[1] : ops[1][i].op = "StopAndRemove" /\ ops[1][i].was # "absent"
    /\ \E i \in DOMAIN ops[1] : ops[1][i].op = "Installed" /\ ops[1][i].res = Bool(TRUE)
    /\ svc[1][<<"juju-db-v", "3">>] # "absent"
    /\ DOMAIN files[1] = {0, 1, 2}

\* the definitions earlier builds may have left for a build of this version
LegacySet(version) == { LegacyNames(version)[i] : i \in DOMAIN LegacyNames(version) }

RunningNames(n) == { name \in Names : svc[n][name] = "running" }

\* C18: when an invocation is about to issue Install or Start for the
\* definition of the current version, and ever after in that invocation,
\* juju-db and every juju-db-v<x> of an earlier version are absent from its
\* node; on no node do two database services run at the same time.
C18_NoDoubleStart ==
    /\ \A c \in Calls :
          ( \/ call[c].pc \in {"install", "start"}
            \/ Has(ops[c], "Install")
            \/ Has(ops[c], "Start") )
          => \A name \in LegacySet(curVersion) : svc[Node(c)][name] = "absent"
    /\ \A n \in Nodes : Cardinality(RunningNames(n)) <= 1

\* the service of version 3 has been started by an invocation that found
\* juju-db-v2 running and juju-db installed
C18_Witness ==
    /\ curVersion = 3
    /\ svc[1][<<"juju-db-v", "3">>] = "running"
    /\ \E i \in DOMAIN ops[1] : ops[1][i].op = "Start" /\ ops[1][i].res = nil
    /\ \E i \in DOMAIN ops[1] :
          /\ ops[1][i].op = "StopAndRemove" /\ ops[1][i].target = <<"juju-db-v", "2">>
          /\ ops[1][i].was = "running"
    /\ \E i \in DOMAIN ops[1] :
          /\ ops[1][i].op = "StopAndRemove" /\ ops[1][i].target = <<"juju-db">>
          /\ ops[1][i].was = "stopped"
    /\ RunningNames(1) = { <<"juju-db-v", "3">> }

\* C19: when two invocations overlap on one node and RemoveService is not
\* called, no Install is issued for a definition that is installed, and no
\* Install or Start fails but by a fault of the supervisor that a single
\* invocation would meet as well.
C19_NoLocalLock ==
    removed = 0
    => \A c \in Calls : \A i \in DOMAIN ops[c] :
          /\ ops[c][i].op = "Install" =>
                /\ ops[c][i].was = "absent"
                /\ ops[c][i].res \in {nil, <<"install failed">>}
          /\ ops[c][i].op = "Start" => ops[c][i].res \in {nil, <<"start failed">>}

\* C20: for a script version of 1 or 2, an invocation that has gone through
\* the legacy removal has issued exactly one StopAndRemove, for juju-db, and
\* none for a versioned name, whatever it found installed and whether or not
\* the removal succeeded.
C20_SingleLegacyRemoval ==
    \A c \in Calls :
       curVersion <= 2
       => Targets(ops[c], "StopAndRemove") =
             IF call[c].pc \in {"idle", "removeOld"} THEN <<>> ELSE << <<"juju-db">> >>

\* an invocation of version 2 removed a running juju-db and went on to
\* install juju-db-v2
C20_Witness ==
    /\ curVersion = 2 /\ Done(1) /\ Result(1) = nil
    /\ Count(ops[1], "StopAndRemove") = 1
    /\ ops[1][1].target = <<"juju-db">> /\ ops[1][1].was = "running"
    /\ Has(ops[1], "Install")

\* C21: the error an invocation returns for a failed operation is the
\* cause wrapped in a message of the engine: it is longer than the cause,
\* ends with it, and names the target of the operation (the service, the
\* directory or file, the address).
C21_WrappedErrors ==
    \A c \in Calls : \A i \in DOMAIN ops[c] :
       Failed(ops[c][i])
       => /\ Done(c)
          /\ CausedBy(Result(c), ops[c][i].res)
          /\ Len(Result(c)) > Len(ops[c][i].res)
          /\ ops[c][i].target # nil => Contains(Result(c), ops[c][i].target)

\* C22: the removals of an invocation are requested for juju-db first and
\* then for juju-db-v2 .. juju-db-v(N-1) in ascending order, every invocation
\* starting again at juju-db; a removal that fails is the last operation of
\* its invocation, which returns the error of the removal; an invocation
\* that got past the removals requested all the names; and the removal of
\* a definition that is absent succeeds.
C22_RemovalOrderAbort ==
    \A c \in Calls :
       LET t == Targets(ops[c], "StopAndRemove")
           L == LegacyNames(curVersion)
       IN /\ Len(t) <= Len(L)
          /\ t = SubSeq(L, 1, Len(t))
          /\ \A i \in DOMAIN ops[c] :
                ops[c][i].op = "StopAndRemove"
                => /\ ops[c][i].was = "absent" => ops[c][i].res = nil
                   /\ ops[c][i].res # nil
                      => /\ i = Len(ops[c])
                         /\ Done(c)
                         /\ Result(c) = ops[c][i].res
          /\ call[c].pc \notin {"idle", "removeOld", "removeLoop", "done"} => t = L

\* the invocation after one that removed juju-db and failed to remove
\* juju-db-v2: it asks for juju-db again, which is gone, and removes juju-db-v2
C22_Witness ==
    /\ curVersion = 3 /\ Done(1) /\ returned[1] = << <<"remove failed">>, nil >>
    /\ Len(ops[1]) >= 2
    /\ ops[1][1] = [ op |-> "StopAndRemove", target |-> <<"juju-db">>, res |-> nil,
                     was |-> "absent" ]
    /\ ops[1][2] = [ op |-> "StopAndRemove", target |-> <<"juju-db-v", "2">>, res |-> nil,
                     was |-> "stopped" ]

\* the log holds the observation op with answer b
Saw(log, op, b) == \E i \in DOMAIN log : log[i].op = op /\ log[i].res = Bool(b)

\* C23: every step leads to a state in which an invocation that saw the
\* current definition installed has issued no MkdirAll, OpenFile or Install,
\* and the step itself left the journal directory and its files as they
\* were; an invocation that saw the service not running and has gone past
\* its Start has issued exactly one Start; an invocation that saw the
\* service running has issued none.
C23_InstalledStopped ==
    [][ \A c \in Calls :
          /\ Saw(ops'[c], "Installed", TRUE)
             => /\ \A i \in DOMAIN ops'[c] :
                      ops'[c][i].op \notin {"MkdirAll", "OpenFile", "Install"}
                /\ files' = files
                /\ journalDir' = journalDir
          /\ (Saw(ops'[c], "Running", FALSE) /\ call'[c].pc # "start")
             => Count(ops'[c], "Start") = 1
          /\ Saw(ops'[c], "Running", TRUE) => Count(ops'[c], "Start") = 0
      ]_vars

\* the first invocation on a node whose current definition was installed
\* and stopped, with a full journal, has started the service
C23_Witness ==
    /\ Done(1) /\ returned[1] = <<nil>>
    /\ Saw(ops[1], "Installed", TRUE) /\ Saw(ops[1], "Running", FALSE)
    /\ \E i \in DOMAIN ops[1] : ops[1][i].op = "Start" /\ ops[1][i].res = nil
    /\ files[1] = FullJournal
    /\ asked.install = 0 /\ asked.start = 1

\* C24: when an invocation has returned the preallocation error for file k,
\* the files before k are in the directory with 1048576 bytes each, k + 1
\* files were opened, no Install was issued and the current definition is
\* not installed; the invocation that follows, while it runs, does not see
\* the definition installed, and it comes to Install only after it opened prealloc.0,
\* prealloc.1 and prealloc.2 again and left each with 1048576 bytes.
C24_PartialPrealloc ==
    \A c \in Calls :
       /\ \A k \in 0 .. numPreallocFiles - 1 :
             ( /\ PreallocError(c)
               /\ ops[c][Len(ops[c])].op = "OpenFile"
               /\ ops[c][Len(ops[c])].target = <<"prealloc.", ToString(k)>> )
             => /\ \A j \in 0 .. k - 1 :
                      j \in DOMAIN files[Node(c)] /\ files[Node(c)][j] = 1048576
                /\ Count(ops[c], "OpenFile") = k + 1
                /\ ~Has(ops[c], "Install")
                /\ ~Installed(Node(c), Name(c))
       /\ ( /\ Len(returned[c]) >= 1
            /\ call[c].pc # "done"
            /\ Result(c) # nil
            /\ Result(c)[1] = "Error creating journal directories: " )
          => /\ ~Saw(ops[c], "Installed", TRUE)
             /\ call[c].pc \in {"install", "running?", "start", "dial", "query", "initiate"}
                => Targets(ops[c], "OpenFile") =
                      << <<"prealloc.", "0">>, <<"prealloc.", "1">>, <<"prealloc.", "2">> >>
             /\ call[c].pc = "install"
                => files[Node(c)] = [ j \in {0, 1, 2} |-> 1048576 ]

\* a write to prealloc.1 failed in the first invocation; the second one has
\* rewritten the three files and stands at Install
C24_Witness ==
    /\ Len(returned[1]) = 1
    /\ CausedBy(returned[1][1], <<"write failed">>)
    /\ Contains(returned[1][1], <<"prealloc.", "1">>)
    /\ call[1].pc = "install"
    /\ Count(ops[1], "OpenFile") = 3
    /\ files[1] = [ j \in {0, 1, 2} |-> 1048576 ]

\* C25: the write loop of a prealloc file adds 65536 bytes to the total with
\* every write that succeeds and goes on while the total is below 1048576:
\* a file whose writes all succeeded took exactly 16 writes and holds exactly
\* 1048576 bytes; a loop that ended below 1048576 ended with the error of
\* its last write; a file that could not be opened was not written.
C25_WriteLoop ==
    \A c \in Calls : \A i \in DOMAIN ops[c] :
       ops[c][i].op = "OpenFile"
       => LET e == ops[c][i]
          IN /\ e.res = nil => e.writes = 16 /\ e.total = 1048576
             /\ e.total < 1048576 => e.res # nil
             /\ e.res = <<"write failed">>
                => /\ e.writes >= 1
                   /\ e.total = (e.writes - 1) * 65536
                   /\ e.total < 1048576
             /\ e.res = <<"open failed">> => e.writes = 0
             /\ (e.res # <<"open failed">> /\ i = Len(ops[c]))
                => files[Node(c)][CHOOSE k \in 0 .. 2 : e.target = <<"prealloc.", ToString(k)>>]
                      = e.total

\* the first file was written in full and the last write to the second failed
C25_Witness ==
    /\ Done(1) /\ Count(ops[1], "OpenFile") = 2
    /\ \E i \in DOMAIN ops[1] :
          /\ ops[1][i].op = "OpenFile" /\ ops[1][i].res = nil
          /\ ops[1][i].writes = 16 /\ ops[1][i].total = 1048576
    /\ ops[1][Len(ops[1])].res = <<"write failed">>
    /\ ops[1][Len(ops[1])].writes = 16
    /\ files[1][1] = 983040

\* C26: a RemoveService step changes the state of no definition but
\* juju-db-v<N> of the current version on one node, which it leaves absent
\* unless the stop or the remove fails, and it touches neither the journal
\* nor the cluster; and an invocation that follows a successful one, sees
\* the definition not installed (RemoveService took it away) and meets no
\* failure has issued MkdirAll, opened the three prealloc files and issued
\* one Install and one Start.
C26_RemoveService ==
    [][ /\ removed' # removed
           => /\ removed' = removed + 1
              /\ \E n \in Nodes :
                    /\ \A m \in Nodes : \A name \in Names :
                          (m # n \/ name # <<"juju-db-v", ToString(curVersion)>>)
                          => svc'[m][name] = svc[m][name]
                    /\ svc'[n][<<"juju-db-v", ToString(curVersion)>>]
                          \in {"absent", "stopped", svc[n][<<"juju-db-v", ToString(curVersion)>>]}
              /\ files' = files /\ journalDir' = journalDir /\ rsConfig' = rsConfig
        /\ \A c \in Calls :
              ( /\ call'[c].pc = "done"
                /\ Len(returned'[c]) >= 2
                /\ returned'[c][Len(returned'[c]) - 1] = nil
                /\ returned'[c][Len(returned'[c])] = nil
                /\ Saw(ops'[c], "Installed", FALSE) )
              => /\ removed' >= 1
                 /\ Count(ops'[c], "MkdirAll") = 1
                 /\ Targets(ops'[c], "OpenFile") =
                       << <<"prealloc.", "0">>, <<"prealloc.", "1">>, <<"prealloc.", "2">> >>
                 /\ Count(ops'[c], "Install") = 1
                 /\ Count(ops'[c], "Start") = 1
      ]_vars

\* RemoveService was called after a successful invocation, and the next
\* invocation has installed and started the service again
C26_Witness ==
    /\ Done(1) /\ returned[1] = <<nil, nil>> /\ removed = 1
    /\ Saw(ops[1], "Installed", FALSE)
    /\ Has(ops[1], "Install") /\ Has(ops[1], "Start")
    /\ svc[1][<<"juju-db-v", ToString(curVersion)>>] = "running"

\* the definition the builder is expected to yield on node n for version v
ExpectedConf(n, v) ==
    [ Name  |-> <<"juju-db-v", ToString(v)>>,
      Desc  |-> <<"juju state database">>,
      Limit |-> [ nofile |-> <<"65000", " ", "65000">>,
                  nproc  |-> <<"20000", " ", "20000">> ],
      Cmd   |-> << "/usr/bin/mongod", " --auth", " --dbpath=", "/var/lib/juju", "/", "db",
                   " --sslOnNormalPorts", " --sslPEMKeyFile ",
                   "'", "/var/lib/juju", "/", "server.pem", "'",
                   " --sslPEMKeyPassword ignored", " --bind_ip 0.0.0.0",
                   " --port ", IF n = 1 THEN "37017" ELSE "37018",
                   " --noprealloc", " --syslog", " --smallfiles", " --replSet ", "juju" >> ]

\* C27: every definition handed to Install, by whichever invocation, is the
\* one definition determined by the version, the data directory and the
\* port: named juju-db-v<N>, limits nofile "65000 65000" and nproc
\* "20000 20000", and the command line of mongod with --auth, --bind_ip
\* 0.0.0.0, --port <port>, --sslPEMKeyFile '<dataDir>/server.pem',
\* --noprealloc, --syslog, --smallfiles and --replSet juju; the set name of
\* every initiate is the one on the command line; and the step that builds
\* the definition and tests Installed() changes nothing but the invocation.
C27_Builder ==
    [][ \A c \in Calls :
          /\ \A i \in DOMAIN ops'[c] :
                /\ ops'[c][i].op = "Install"
                   => /\ ops'[c][i].conf = ExpectedConf(nodeOf[c], curVersion)
                      /\ ops'[c][i].target = ops'[c][i].conf.Name
                /\ ops'[c][i].op = "Initiate"
                   => Contains(ExpectedConf(nodeOf[c], curVersion).Cmd,
                               <<" --replSet ">> \o ops'[c][i].name)
          /\ call[c].pc = "installed?" /\ call'[c].pc # "installed?"
             => /\ svc' = svc /\ files' = files /\ journalDir' = journalDir
                /\ rsConfig' = rsConfig
      ]_vars

\* two invocations of the same caller were each handed the same definition
C27_Witness ==
    /\ Done(1) /\ Len(returned[1]) = 2 /\ asked.install = 2
    /\ \E i \in DOMAIN ops[1] :
          /\ ops[1][i].op = "Install"
          /\ ops[1][i].conf = ExpectedConf(1, curVersion)

\* the log holds operation op with result nil
Succeeded(log, op) == \E i \in DOMAIN log : log[i].op = op /\ log[i].res = nil

\* C28: an invocation that has returned nil saw the current definition
\* installed or installed it, saw the service running or started it, dialed
\* a session, and either its query found a configuration or its initiate
\* created one; none of its operations reported an error.
C28_SuccessPostcondition ==
    \A c \in Calls :
       (Done(c) /\ Result(c) = nil)
       => /\ Saw(ops[c], "Installed", TRUE) \/ Succeeded(ops[c], "Install")
          /\ Saw(ops[c], "Running", TRUE) \/ Succeeded(ops[c], "Start")
          /\ Succeeded(ops[c], "DialWithInfo")
          /\ Succeeded(ops[c], "CurrentConfig") \/ Succeeded(ops[c], "Initiate")
          /\ \A i \in DOMAIN ops[c] : ~Failed(ops[c][i])

\* a node whose service was installed and running before the first
\* invocation, which had only the replica set to initiate
C28_Witness ==
    /\ Done(1) /\ returned[1] = <<nil>>
    /\ Saw(ops[1], "Installed", TRUE) /\ Saw(ops[1], "Running", TRUE)
    /\ Succeeded(ops[1], "Initiate")
    /\ asked.install = 0 /\ asked.start = 0

\* C29: an invocation whose dial succeeded holds an open session until it
\* returns and has closed it exactly once, as its last operation, when it
\* has returned, whether its query found a configuration, its query failed,
\* its initiate succeeded or its initiate failed; an invocation whose dial
\* failed or that never dialed has no session and issues no close.
C29_NoSessionLeak ==
    \A c \in Calls :
       IF Succeeded(ops[c], "DialWithInfo")
       THEN IF Done(c)
            THEN /\ Count(ops[c], "Close") = 1
                 /\ ops[c][Len(ops[c])].op = "Close"
                 /\ call[c].session = "closed"
            ELSE /\ Count(ops[c], "Close") = 0
                 /\ call[c].session = "open"
       ELSE /\ Count(ops[c], "Close") = 0
            /\ call[c].session = "none"

\* caller 2 lost the race: its initiate failed and its session is closed
C29_Witness ==
    /\ Done(2) /\ Result(2) = LostRace
    /\ Len(ops[2]) >= 2
    /\ ops[2][Len(ops[2]) - 1].op = "Initiate"
    /\ ops[2][Len(ops[2])].op = "Close"
    /\ call[2].session = "closed"

\* C30: every call of runWithTimeout returns exactly once, by one of the two
\* cases of its select.  When the error of r.Run reaches the channel done
\* before the timer fires, the call returns that error and r.Stop is not
\* called; when the timer fires first, r.Stop is called exactly once and the
\* call returns the error "timed out waiting for agent to finish; stop
\* error: " followed by what Stop answered ("<nil>" when it answered nil).
C30_RunOrTimeout ==
    /\ Len(run.rets) = (IF run.main \in {"select", "stop"} THEN run.calls - 1 ELSE run.calls)
    /\ run.stops > 0 => run.timedOut /\ run.main = "returned"
    /\ run.main = "returned" /\ ~run.timedOut =>
          /\ run.worker = "exited"
          /\ run.rets[Len(run.rets)] = run.val
          /\ run.stops = 0
    /\ run.main = "returned" /\ run.timedOut =>
          /\ run.stops = 1
          /\ run.rets[Len(run.rets)] =
                <<"timed out waiting for agent to finish; stop error: ">> \o
                (IF run.stopErr = nil THEN <<"<nil>">> ELSE run.stopErr)

\* a first call has returned the error of r.Run, a second one has timed out
\* and returned the error of r.Stop
C30_Witness ==
    /\ run.main = "returned"
    /\ Len(run.rets) = 2
    /\ run.rets[1] = <<"run failed">>
    /\ run.timedOut
    /\ run.stops = 1
    /\ run.rets[2] = <<"timed out waiting for agent to finish; stop error: ",
                       "stop failed">>

\* the goroutine holds the error of r.Run and waits to send it on done, while
\* runWithTimeout has left its select, the only receive on done
Stranded == run.worker = "send" /\ run.main # "select"

\* C31: the goroutine that runs r.Run is never left blocked on its send on
\* the channel done: whenever r.Run has returned and its error is not yet
\* sent, runWithTimeout still waits in the select to receive it, also when
\* the timer fired before r.Run returned.
C31_NoGoroutineLeak == ~Stranded
====
